---- MODULE Spec2Model ----
(***************************************************************************)
(* A model of backend/server.py: the /api/summarize, /api/history,         *)
(* /api/update-metadata, /api/status and /api/admin/transcript handlers    *)
(* over the transcripts collection, with the helper functions they call.   *)
(*                                                                         *)
(* A Python str is a sequence of one-character strings.  A fixed literal   *)
(* of the source (a header line, an emoji) is one element whose name is    *)
(* written between brackets, "[too-short]"; such an element never occurs   *)
(* in an input.  Python's None and a key that a document does not hold are *)
(* the two one-element sequences None and Missing.                         *)
(***************************************************************************)
EXTENDS Integers, Sequences, FiniteSets, TLC

(***************************************************************************)
(* Python values                                                           *)
(***************************************************************************)
None == <<"[None]">>
Missing == <<"[missing]">>

\* Python truthiness of an optional str: None, '' and an absent key are falsy.
Truthy(x) == x # None /\ x # Missing /\ x # <<>>

\* dict.get(key): None for an absent key.
Get(x) == IF x = Missing THEN None ELSE x

Whitespace == {" ", "\n", "\t"}

Min(a, b) == IF a < b THEN a ELSE b
Max(a, b) == IF a > b THEN a ELSE b

\* s[:n]
Take(s, n) == SubSeq(s, 1, Min(n, Len(s)))

\* s[n:] (0-based n)
Drop(s, n) == SubSeq(s, n + 1, Len(s))

\* str.strip()
Strip(s) ==
    LET keep == {i \in 1..Len(s) : s[i] \notin Whitespace}
    IN  IF keep = {} THEN <<>>
        ELSE LET lo == CHOOSE i \in keep : \A j \in keep : i <= j
                 hi == CHOOSE i \in keep : \A j \in keep : j <= i
             IN  SubSeq(s, lo, hi)

\* Whether sub occurs in s at (1-based) position i.
OccursAt(s, sub, i) ==
    /\ i >= 1
    /\ i + Len(sub) - 1 <= Len(s)
    /\ \A k \in 1..Len(sub) : s[i + k - 1] = sub[k]

\* sub in s
Contains(s, sub) == \E i \in 1..(Len(s) + 1) : OccursAt(s, sub, i)

\* str.find(sub) + 1: the leftmost position of sub in s, or 0.
Find(s, sub) ==
    LET at == {i \in 1..Len(s) : OccursAt(s, sub, i)}
    IN  IF at = {} THEN 0 ELSE CHOOSE i \in at : \A j \in at : i <= j

\* str.split(sep) for a non-empty sep.
RECURSIVE Split(_, _)
Split(s, sep) ==
    LET i == Find(s, sep)
    IN  IF i = 0 THEN <<s>>
        ELSE <<SubSeq(s, 1, i - 1)>> \o Split(Drop(s, i - 1 + Len(sep)), sep)

\* sep.join(parts)
RECURSIVE Join(_, _)
Join(parts, sep) ==
    IF parts = <<>> THEN <<>>
    ELSE IF Len(parts) = 1 THEN parts[1]
    ELSE parts[1] \o sep \o Join(Tail(parts), sep)

\* x in list
InList(x, list) == \E i \in 1..Len(list) : list[i] = x

\* str(n) for 0 <= n <= 99
Digit(n) == <<"0", "1", "2", "3", "4", "5", "6", "7", "8", "9">>[n + 1]
Str(n) == IF n < 10 THEN <<Digit(n)>> ELSE <<Digit(n \div 10), Digit(n % 10)>>

\* str(n) for a status code 100 <= n <= 999
StatusStr(n) == Str(n \div 10) \o <<Digit(n % 10)>>

(***************************************************************************)
(* extract_video_id                                                        *)
(***************************************************************************)
IdLen == 11

\* The character class [0-9A-Za-z_-]
IdChars ==
    {"0", "1", "2", "3", "4", "5", "6", "7", "8", "9",
     "A", "B", "C", "D", "E", "F", "G", "H", "I", "J", "K", "L", "M",
     "N", "O", "P", "Q", "R", "S", "T", "U", "V", "W", "X", "Y", "Z",
     "a", "b", "c", "d", "e", "f", "g", "h", "i", "j", "k", "l", "m",
     "n", "o", "p", "q", "r", "s", "t", "u", "v", "w", "x", "y", "z",
     "_", "-"}

\* The four patterns, each a list of alternative prefixes before the
\* capturing group ([0-9A-Za-z_-]{11}).
patterns ==
    << << <<"v", "=">>, <<"/">> >>,
       << <<"e", "m", "b", "e", "d", "/">> >>,
       << <<"w", "a", "t", "c", "h", "?", "v", "=">> >>,
       << <<"y", "o", "u", "t", "u", ".", "b", "e", "/">> >> >>

\* A variant of MatchAt that takes any IdLen characters.
MatchAt_AnyChars(url, pre, i) ==
    /\ OccursAt(url, pre, i)
    /\ i + Len(pre) + IdLen - 1 <= Len(url)

\* Whether prefix pre, then IdLen characters of the class, occur in url at i.
MatchAt(url, pre, i) ==
    /\ OccursAt(url, pre, i)
    /\ i + Len(pre) + IdLen - 1 <= Len(url)
    /\ \A k \in 0..(IdLen - 1) : url[i + Len(pre) + k] \in IdChars

\* re.search(pattern, url): the capturing group of the leftmost match (at
\* one position the alternatives are tried in order), or None.
ReSearch(alts, url) ==
    LET hits == {i \in 1..Len(url) : \E a \in 1..Len(alts) : MatchAt(url, alts[a], i)}
    IN  IF hits = {} THEN None
        ELSE LET i == CHOOSE h \in hits : \A j \in hits : h <= j
                 a == CHOOSE b \in 1..Len(alts) :
                        /\ MatchAt(url, alts[b], i)
                        /\ \A c \in 1..(b - 1) : ~MatchAt(url, alts[c], i)
             IN  SubSeq(url, i + Len(alts[a]), i + Len(alts[a]) + IdLen - 1)

\* A variant of extract_video_id that takes what follows "v=", of any length.
extract_video_id_AnyLength(url) ==
    IF Find(url, <<"v", "=">>) = 0 THEN None
    ELSE Take(Drop(url, Find(url, <<"v", "=">>) + 1), IdLen)

\* Raised ValueError is the value None.
RECURSIVE ExtractFrom(_, _)
ExtractFrom(url, k) ==
    IF k > Len(patterns) THEN None
    ELSE IF ReSearch(patterns[k], url) # None THEN ReSearch(patterns[k], url)
    ELSE ExtractFrom(url, k + 1)

extract_video_id(url) == ExtractFrom(url, 1)

(***************************************************************************)
(* get_video_metadata                                                      *)
(*                                                                         *)
(* search is the answer of SearchAPI: [raises, status, has_results,        *)
(* results], results a list of [title, channel, thumbnail] with '' for a   *)
(* key the entry does not hold; raises stands for any exception inside the *)
(* try block (the request, response.json()).  oembed is the answer of the  *)
(* oEmbed endpoint: [raises, status, title, author].  The value is         *)
(* [title, channel, thumbnail_url, calls], calls the services contacted,   *)
(* in order.                                                               *)
(***************************************************************************)
ImgHost == <<"[https://img.youtube.com/vi/]">>

DefaultMetadata(video_id, calls) ==
    [title |-> <<"[YouTube Video (]">> \o video_id \o <<"[)]">>,
     channel |-> <<"[YouTube Channel]">>,
     thumbnail_url |-> ImgHost \o video_id \o <<"[/0.jpg]">>,
     calls |-> calls]

OEmbedMetadata(video_id, oembed, calls) ==
    IF ~oembed.raises /\ oembed.status = 200
    THEN [title |-> oembed.title,
          channel |-> oembed.author,
          thumbnail_url |-> ImgHost \o video_id \o <<"[/maxresdefault.jpg]">>,
          calls |-> calls \o <<"oembed">>]
    ELSE DefaultMetadata(video_id, calls \o <<"oembed">>)

\* A variant of get_video_metadata that never contacts the oEmbed endpoint.
get_video_metadata_NoOEmbed(video_id, search, oembed) ==
    IF /\ ~search.raises
       /\ search.status = 200
       /\ search.has_results
       /\ search.results # <<>>
    THEN [title |-> search.results[1].title,
          channel |-> search.results[1].channel,
          thumbnail_url |-> search.results[1].thumbnail,
          calls |-> <<"searchapi">>]
    ELSE DefaultMetadata(video_id, <<"searchapi">>)

get_video_metadata(video_id, search, oembed) ==
    IF /\ ~search.raises
       /\ search.status = 200
       /\ search.has_results
       /\ search.results # <<>>
    THEN [title |-> search.results[1].title,
          channel |-> search.results[1].channel,
          thumbnail_url |-> search.results[1].thumbnail,
          calls |-> <<"searchapi">>]
    ELSE OEmbedMetadata(video_id, oembed, <<"searchapi">>)

(***************************************************************************)
(* get_transcript                                                          *)
(*                                                                         *)
(* answer is the transcript API's answer: [status, has_transcripts,        *)
(* transcripts], transcripts a list of segments [start, text].  The value  *)
(* is [raised, status_code, detail, value]: the HTTPException raised, or   *)
(* the transcript returned.                                                *)
(***************************************************************************)
\* sorted(segments, key=start): a stable insertion sort.
RECURSIVE InsertByStart(_, _)
InsertByStart(seg, sorted) ==
    IF sorted = <<>> THEN <<seg>>
    ELSE IF seg.start < sorted[1].start THEN <<seg>> \o sorted
    ELSE <<sorted[1]>> \o InsertByStart(seg, Tail(sorted))

RECURSIVE SortByStart(_)
SortByStart(segments) ==
    IF segments = <<>> THEN <<>>
    ELSE InsertByStart(segments[Len(segments)],
                       SortByStart(SubSeq(segments, 1, Len(segments) - 1)))

\* The stripped texts of the segments, the blank ones dropped.
RECURSIVE TranscriptParts(_)
TranscriptParts(segments) ==
    IF segments = <<>> THEN <<>>
    ELSE (IF Strip(segments[1].text) # <<>> THEN <<Strip(segments[1].text)>> ELSE <<>>)
         \o TranscriptParts(Tail(segments))

\* A variant of get_transcript that returns '' when there is no transcript.
get_transcript_NoRaise(answer) ==
    IF answer.status # 200
    THEN [raised |-> TRUE, status_code |-> answer.status,
          detail |-> <<"[Failed to get transcript: ]">>, value |-> <<>>]
    ELSE [raised |-> FALSE, status_code |-> 200, detail |-> <<>>,
          value |-> Join(TranscriptParts(SortByStart(answer.transcripts)), <<" ">>)]

get_transcript(answer) ==
    IF answer.status # 200
    THEN [raised |-> TRUE, status_code |-> answer.status,
          detail |-> <<"[Failed to get transcript: ]">>, value |-> <<>>]
    ELSE IF ~answer.has_transcripts \/ answer.transcripts = <<>>
    THEN [raised |-> TRUE, status_code |-> 400,
          detail |-> <<"[No transcript found for this video]">>, value |-> <<>>]
    ELSE [raised |-> FALSE, status_code |-> 200, detail |-> <<>>,
          value |-> Join(TranscriptParts(SortByStart(answer.transcripts)), <<" ">>)]

(***************************************************************************)
(* summarize_song_lyrics and summarize_text                                *)
(***************************************************************************)
\* The character U+266A, an eighth note.
MusicNote == "#"

\* [line.strip() for line in lines if line.strip() and MusicNote not in line]
RECURSIVE Lyrics(_)
Lyrics(lines) ==
    IF lines = <<>> THEN <<>>
    ELSE (IF Strip(lines[1]) # <<>> /\ ~Contains(lines[1], <<MusicNote>>)
          THEN <<Strip(lines[1])>> ELSE <<>>)
         \o Lyrics(Tail(lines))

\* The list without its repeated elements, first occurrences kept.
RECURSIVE Unique(_, _)
Unique(list, seen) ==
    IF list = <<>> THEN seen
    ELSE Unique(Tail(list), IF InList(list[1], seen) THEN seen ELSE Append(seen, list[1]))

\* for i in range(interval, n, interval): summary.append(notes + unique_lyrics[i])
RECURSIVE LyricSamples(_, _, _)
LyricSamples(unique_lyrics, i, interval) ==
    IF i >= Len(unique_lyrics) THEN <<>>
    ELSE << <<"[notes] ">> \o unique_lyrics[i + 1] >>
         \o LyricSamples(unique_lyrics, i + interval, interval)

FewLines == 8

summarize_song_lyrics(text) ==
    LET unique_lyrics == Unique(Lyrics(Split(text, <<"\n">>)), <<>>)
        n == Len(unique_lyrics)
    IN  IF n < FewLines
        THEN <<"[mic] ">> \o Join(unique_lyrics, <<"\n", "[notes] ">>)
        ELSE LET first == << <<"[mic] ">> \o unique_lyrics[1] >>
                 sampled == first \o LyricSamples(unique_lyrics, Max(1, n \div 5), Max(1, n \div 5))
                 summary == IF ~InList(unique_lyrics[n], sampled)
                            THEN Append(sampled, <<"[multi-notes] ">> \o unique_lyrics[n])
                            ELSE sampled
             IN  Join(summary, <<"\n">>)

max_chars == 16000
ShortText == 500
MinChunks == 5
ManyChunks == 10

topic_emojis ==
    <<"[e0]", "[e1]", "[e2]", "[e3]", "[e4]", "[e5]", "[e6]", "[e7]", "[e8]", "[e9]">>

\* The topic lines sampled from chunks[1..] (0-based), for i in range(1, 5).
RECURSIVE Topics(_, _)
Topics(chunks, i) ==
    IF i >= (IF Len(chunks) > ManyChunks THEN 5 ELSE Min(5, Len(chunks))) THEN <<>>
    ELSE LET idx == IF Len(chunks) > ManyChunks
                    THEN Min(i * Max(1, Len(chunks) \div 5), Len(chunks) - 1)
                    ELSE i
             chunk == Strip(chunks[idx + 1])
         IN  (IF chunk # <<>>
              THEN << Str(i + 1) \o <<".", " ", topic_emojis[Min(i, Len(topic_emojis) - 1) + 1], " ">>
                      \o chunk >>
              ELSE <<>>)
             \o Topics(chunks, i + 1)

\* The except branch of summarize_text, on the (truncated) text.
FallbackSummary(text) ==
    IF Contains(text, <<MusicNote>>)
    THEN <<"[song-header]">> \o summarize_song_lyrics(text)
    ELSE LET chunks == Split(text, <<".", " ">>)
         IN  IF Len(text) < ShortText \/ Len(chunks) < MinChunks
             THEN <<"[too-short]">> \o text
             ELSE LET topics ==
                          (IF chunks[1] # <<>>
                           THEN << <<"1", ".", " ", topic_emojis[1], "[ Introduction: ]">>
                                   \o Strip(chunks[1]) >>
                           ELSE <<>>)
                          \o Topics(chunks, 1)
                      last == chunks[Len(chunks)]
                      mid == chunks[(Len(chunks) \div 2) + 1]
                  IN  <<"[summary-header]">> \o Join(topics, <<"\n">>)
                      \o <<"[insights-header]">>
                      \o (IF last # <<>> /\ ~InList(last, topics)
                          THEN <<"[* key ]">> \o Strip(last) \o <<"\n">> ELSE <<>>)
                      \o (IF mid # <<>> /\ ~InList(mid, topics)
                          THEN <<"[* dizzy ]">> \o Strip(mid) \o <<"\n">> ELSE <<>>)
                      \o <<"[disclaimer]">>

\* A variant of summarize_text that also falls back on an empty content.
summarize_text_EmptyFallsBack(text, llm) ==
    IF ~llm.raises /\ llm.content # <<>> THEN llm.content ELSE FallbackSummary(text)

\* llm is what the try block around openai.chat.completions.create does:
\* [raises, content], raises for any exception in it, content the message
\* content it read otherwise.
summarize_text(text, llm) ==
    LET sent == IF Len(text) > max_chars THEN Take(text, max_chars) ELSE text
    IN  IF ~llm.raises THEN llm.content ELSE FallbackSummary(sent)

(***************************************************************************)
(* get_channel_videos                                                      *)
(*                                                                         *)
(* channel_url is the request's "channel_url" ('' when absent).  oembed is *)
(* the oEmbed answer used for a video URL, [raises, status, title,         *)
(* author].  A page is what one scrape request gets: [raises, status,      *)
(* og_title, links]: og_title the content of the og:title meta tag         *)
(* (Missing when the page has none), links the watch links of the page in  *)
(* order, each [id, oembed] with the oEmbed answer for that video.  The    *)
(* value is [status, detail, channel_name, videos, urls], urls the pages   *)
(* requested, in order.                                                    *)
(***************************************************************************)
\* s.endswith(suffix)
EndsWith(s, suffix) == OccursAt(s, suffix, Len(s) - Len(suffix) + 1)

\* s.replace(old, new)
Replace(s, old, new) == Join(Split(s, old), new)

\* channel_url.split(sep)[-1].split('/')[0].split('?')[0]
Segment(channel_url, sep) ==
    LET rest == Split(channel_url, sep)[Len(Split(channel_url, sep))]
    IN  Split(Split(rest, <<"/">>)[1], <<"?">>)[1]

YouTubeHost == <<"y", "o", "u", "t", "u", "b", "e", ".", "c", "o", "m", "/">>
YouTubeSuffix == <<" ", "-", " ", "Y", "o", "u", "T", "u", "b", "e">>
VideosPath == <<"/", "v", "i", "d", "e", "o", "s">>

\* Lines 530-562: the channel id and the channel handle, None when not set.
ChannelOf(channel_url, oembed) ==
    IF Contains(channel_url, <<"/", "c", "h", "a", "n", "n", "e", "l", "/">>)
    THEN [channel_id |-> Segment(channel_url, <<"/", "c", "h", "a", "n", "n", "e", "l", "/">>),
          channel_handle |-> None]
    ELSE IF Contains(channel_url, <<"@">>)
    THEN [channel_id |-> None, channel_handle |-> Segment(channel_url, <<"@">>)]
    ELSE IF Contains(channel_url, <<"/", "c", "/">>)
    THEN [channel_id |-> None, channel_handle |-> Segment(channel_url, <<"/", "c", "/">>)]
    ELSE IF Contains(channel_url, <<"/", "u", "s", "e", "r", "/">>)
    THEN [channel_id |-> None,
          channel_handle |-> Segment(channel_url, <<"/", "u", "s", "e", "r", "/">>)]
    ELSE IF /\ Contains(channel_url, YouTubeHost)
            /\ extract_video_id(channel_url) # None
            /\ ~oembed.raises
            /\ oembed.status = 200
    THEN [channel_id |-> None,
          channel_handle |-> Replace(IF oembed.author = Missing THEN <<>> ELSE oembed.author,
                                     <<" ">>, <<>>)]
    ELSE [channel_id |-> None, channel_handle |-> None]

\* Lines 571-576: the URL requested, made to end with /videos.
VideosUrl(channel_url) ==
    IF EndsWith(channel_url, VideosPath) THEN channel_url
    ELSE IF EndsWith(channel_url, <<"/">>) THEN channel_url \o Tail(VideosPath)
    ELSE channel_url \o VideosPath

\* Lines 605-631: the videos of the watch links whose oEmbed request answers 200.
RECURSIVE ScrapedVideos(_, _)
ScrapedVideos(links, channel_name) ==
    IF links = <<>> THEN <<>>
    ELSE (IF ~links[1].oembed.raises /\ links[1].oembed.status = 200
          THEN <<[id |-> links[1].id,
                  title |-> IF links[1].oembed.title = Missing
                            THEN <<"[Video ]">> \o links[1].id
                            ELSE links[1].oembed.title,
                  link |-> <<"[https://www.youtube.com/watch?v=]">> \o links[1].id,
                  channel |-> IF links[1].oembed.author = Missing
                              THEN channel_name
                              ELSE links[1].oembed.author,
                  thumbnail |-> ImgHost \o links[1].id \o <<"[/maxresdefault.jpg]">>]>>
          ELSE <<>>)
         \o ScrapedVideos(Tail(links), channel_name)

\* list(dict.fromkeys(video_ids)): the links without the repeated ids.
RECURSIVE UniqueLinks(_, _)
UniqueLinks(links, seen) ==
    IF links = <<>> THEN seen
    ELSE UniqueLinks(Tail(links),
             IF \E k \in 1..Len(seen) : seen[k].id = links[1].id
             THEN seen ELSE Append(seen, links[1]))

\* A variant of scrape_youtube_channel_videos that keeps the repeated ids.
scrape_youtube_channel_videos_NoDedup(channel_url, page) ==
    IF page.raises \/ page.status # 200
    THEN [channel_name |-> None, videos |-> <<>>, url |-> VideosUrl(channel_url)]
    ELSE [channel_name |-> IF page.og_title = Missing THEN <<"[YouTube Channel]">>
                           ELSE Replace(page.og_title, YouTubeSuffix, <<>>),
          videos |-> ScrapedVideos(Take(page.links, 6),
                         IF page.og_title = Missing THEN <<"[YouTube Channel]">>
                         ELSE Replace(page.og_title, YouTubeSuffix, <<>>)),
          url |-> VideosUrl(channel_url)]

MaxVideos == 6

scrape_youtube_channel_videos(channel_url, page) ==
    IF page.raises \/ page.status # 200
    THEN [channel_name |-> None, videos |-> <<>>, url |-> VideosUrl(channel_url)]
    ELSE LET channel_name == IF page.og_title = Missing THEN <<"[YouTube Channel]">>
                             ELSE Replace(page.og_title, YouTubeSuffix, <<>>)
         IN  [channel_name |-> channel_name,
              videos |-> ScrapedVideos(Take(UniqueLinks(page.links, <<>>), MaxVideos),
                                       channel_name),
              url |-> VideosUrl(channel_url)]

SampleVideo(id, title, channel) ==
    [id |-> <<id>>, title |-> <<title>>,
     link |-> <<"[https://www.youtube.com/watch?v=]", id>>,
     channel |-> <<channel>>,
     thumbnail |-> ImgHost \o <<id, "[/maxresdefault.jpg]">>]

sample_videos ==
    <<SampleVideo("[bCkPXBXGsIQ]", "[Why are Hydrogen Fuel Cells So Expensive?]", "[Just Have A Think]"),
      SampleVideo("[Nj-hdQMa3uA]", "[Dr. Andrew Huberman]", "[Lex Fridman]"),
      SampleVideo("[gLJowTOkZVo]", "[How to Fall Asleep & Sleep Better]", "[Andrew Huberman]"),
      SampleVideo("[9tjGg8WnxlQ]", "[Atmospheric CO2 Removal]", "[Just Have A Think]"),
      SampleVideo("[vPOl5VqpBuw]", "[The Power Company that's Ditching Fossil Fuels]", "[Just Have A Think]"),
      SampleVideo("[cxRm6u3mfbI]", "[What Will Happen When We Run Out of Food?]", "[Just Have A Think]")>>

\* A variant of ScrapeAttempts that keeps the channel name of the first attempt.
ScrapeAttempts_FirstName(channel_url, channel_id, channel_handle, page1, page2) ==
    LET scrape_url ==
            IF Truthy(channel_handle) THEN <<"[https://www.youtube.com/@]">> \o channel_handle
            ELSE IF Truthy(channel_id)
            THEN <<"[https://www.youtube.com/channel/]">> \o channel_id
            ELSE channel_url
        first == scrape_youtube_channel_videos(scrape_url, page1)
        alt_url ==
            IF Truthy(channel_handle) THEN <<"[https://www.youtube.com/c/]">> \o channel_handle
            ELSE <<"[https://www.youtube.com/channel/]">> \o channel_id \o VideosPath
        second == scrape_youtube_channel_videos(alt_url, page2)
    IN  IF first.videos = <<>> /\ (Truthy(channel_handle) \/ Truthy(channel_id))
        THEN [channel_name |-> first.channel_name, videos |-> second.videos,
              urls |-> <<first.url, second.url>>]
        ELSE [channel_name |-> first.channel_name, videos |-> first.videos,
              urls |-> <<first.url>>]

\* Lines 634-655: the scrape attempts, the last one made giving the result.
ScrapeAttempts(channel_url, channel_id, channel_handle, page1, page2) ==
    LET scrape_url ==
            IF Truthy(channel_handle) THEN <<"[https://www.youtube.com/@]">> \o channel_handle
            ELSE IF Truthy(channel_id)
            THEN <<"[https://www.youtube.com/channel/]">> \o channel_id
            ELSE channel_url
        first == scrape_youtube_channel_videos(scrape_url, page1)
        alt_url ==
            IF Truthy(channel_handle) THEN <<"[https://www.youtube.com/c/]">> \o channel_handle
            ELSE <<"[https://www.youtube.com/channel/]">> \o channel_id \o VideosPath
        second == scrape_youtube_channel_videos(alt_url, page2)
    IN  IF first.videos = <<>> /\ (Truthy(channel_handle) \/ Truthy(channel_id))
        THEN [channel_name |-> second.channel_name, videos |-> second.videos,
              urls |-> <<first.url, second.url>>]
        ELSE [channel_name |-> first.channel_name, videos |-> first.videos,
              urls |-> <<first.url>>]

get_channel_videos(channel_url, oembed, page1, page2) ==
    IF channel_url = <<>>
    THEN [status |-> 400, detail |-> <<"[Channel URL is required]">>,
          channel_name |-> None, videos |-> <<>>, urls |-> <<>>]
    ELSE LET ch == ChannelOf(channel_url, oembed)
             got == ScrapeAttempts(channel_url, ch.channel_id, ch.channel_handle, page1, page2)
             fill == Len(got.videos) < MaxVideos
             videos == IF fill
                       THEN got.videos
                            \o Take(sample_videos, Min(MaxVideos - Len(got.videos), Len(sample_videos)))
                       ELSE got.videos
             channel_name ==
                 IF fill /\ ~Truthy(got.channel_name)
                 THEN (IF Truthy(ch.channel_handle) THEN <<"@">> \o ch.channel_handle
                       ELSE IF Truthy(ch.channel_id)
                       THEN <<"[Channel ID: ]">> \o ch.channel_id
                       ELSE <<"[YouTube Channel]">>)
                 ELSE got.channel_name
         IN  [status |-> 200, detail |-> <<>>, channel_name |-> channel_name,
              videos |-> Take(videos, MaxVideos), urls |-> got.urls]

(***************************************************************************)
(* The bounds of the model and the inputs drawn                            *)
(***************************************************************************)
\* The requests served in one behaviour, all endpoints together.
MaxRequests == 3

\* The handlers of POST /summarize that may be in flight together.
Procs == {1, 2}

\* The two URL forms of the tests and the patterns, written without the
\* leading "https://www." and "https://", in which no pattern matches.
WatchPrefix ==
    <<"y", "o", "u", "t", "u", "b", "e", ".", "c", "o", "m", "/",
      "w", "a", "t", "c", "h", "?", "v", "=">>
ShortPrefix == <<"y", "o", "u", "t", "u", ".", "b", "e", "/">>
Vid1 == <<"d", "Q", "w", "4", "w", "9", "W", "g", "X", "c", "Q">>
Vid2 == <<"8", "S", "0", "F", "D", "j", "F", "B", "j", "8", "o">>

\* The URLs requested: two videos and the tests' invalid URL.
Urls ==
    {WatchPrefix \o Vid1, ShortPrefix \o Vid2,
     WatchPrefix \o <<"i", "n", "v", "a", "l", "i", "d">>}

\* What the transcript API may answer: an error status, no transcripts, one
\* segment of blanks, two segments out of order.
TranscriptAnswers ==
    {[status |-> 503, has_transcripts |-> FALSE, transcripts |-> <<>>],
     [status |-> 200, has_transcripts |-> TRUE, transcripts |-> <<>>],
     [status |-> 200, has_transcripts |-> TRUE,
      transcripts |-> <<[start |-> 0, text |-> <<" ">>]>>],
     [status |-> 200, has_transcripts |-> TRUE,
      transcripts |-> <<[start |-> 4, text |-> <<"b">>],
                        [start |-> 0, text |-> <<" ", "a">>]>>]}

\* What SearchAPI may answer to the metadata query.
SearchAnswers ==
    {[raises |-> TRUE, status |-> 0, has_results |-> FALSE, results |-> <<>>],
     [raises |-> FALSE, status |-> 200, has_results |-> TRUE,
      results |-> <<[title |-> <<>>, channel |-> <<"C">>, thumbnail |-> <<"U">>]>>]}

\* What the oEmbed endpoint may answer.
OEmbedAnswers ==
    {[raises |-> FALSE, status |-> 200, title |-> <<"t">>, author |-> <<"c">>]}

\* What the LLM call may do: raise, or return a message content.
LlmAnswers ==
    {[raises |-> TRUE, content |-> <<>>],
     [raises |-> FALSE, content |-> <<"s">>]}

(***************************************************************************)
(* The state                                                               *)
(***************************************************************************)
VARIABLES
    store,          \* db.transcripts: the documents, in natural order
    next_oid,       \* the next _id (and uuid) given to an inserted document
    now,            \* datetime.utcnow()
    req,            \* per handler of POST /summarize: where it is, its locals, what it asked and got
    returned,       \* the 200 responses of POST /summarize whose record was not deleted since
    hist,           \* the handler of GET /history
    upd,            \* the handler of POST /update-metadata
    status_checks,  \* db.status_checks: the number of documents
    served,         \* the number of requests served so far
    call            \* a helper function applied alone: its arguments and its value

vars == <<store, next_oid, now, req, returned, hist, upd, status_checks, served, call>>

IdleReq ==
    [pc |-> "idle", url |-> <<>>, video_id |-> <<>>, existing |-> <<>>,
     prior |-> {}, asked |-> <<>>, calls |-> <<>>, resp |-> <<>>]

IdleLoop == [pc |-> "idle", items |-> <<>>, i |-> 0, updated_count |-> 0, resp |-> <<>>]

NoCall == [fn |-> "none", done |-> FALSE]

Init ==
    /\ store = <<>>
    /\ next_oid = 1
    /\ now = 1
    /\ req = [p \in Procs |-> IdleReq]
    /\ returned = {}
    /\ hist = IdleLoop
    /\ upd = IdleLoop
    /\ status_checks = 0
    /\ served = 0
    /\ call = NoCall

(***************************************************************************)
(* The collection                                                          *)
(***************************************************************************)
\* find_one({"video_id": video_id}): the first match in natural order, as a
\* list of one document, or the empty list for None.
FindOne(st, video_id) ==
    LET at == {i \in 1..Len(st) : st[i].video_id = video_id}
    IN  IF at = {} THEN <<>>
        ELSE <<st[CHOOSE i \in at : \A j \in at : i <= j]>>

\* update_one({"_id": oid}, {"$set": fields}): doc with the fields set.
SetFields(doc, fields) ==
    [k \in DOMAIN doc |-> IF k \in DOMAIN fields THEN fields[k] ELSE doc[k]]

UpdateOne(st, oid, fields) ==
    [i \in 1..Len(st) |-> IF st[i].oid = oid THEN SetFields(st[i], fields) ELSE st[i]]

\* delete_one({"id": id})
RECURSIVE DeleteOne(_, _)
DeleteOne(st, id) ==
    IF st = <<>> THEN <<>>
    ELSE IF st[1].id = id THEN Tail(st)
    ELSE <<st[1]>> \o DeleteOne(Tail(st), id)

Oids(st) == {st[i].oid : i \in 1..Len(st)}

\* A variant of MetadataFields that also resets the timestamp.
MetadataFields_Stamped(m) ==
    [title |-> m.title, channel |-> m.channel, thumbnail_url |-> m.thumbnail_url,
     timestamp |-> 0]

\* The $set of a metadata backfill.
MetadataFields(m) ==
    [title |-> m.title, channel |-> m.channel, thumbnail_url |-> m.thumbnail_url]

\* not title or not channel or not thumbnail_url
LacksMetadata(doc) ==
    ~Truthy(doc.title) \/ ~Truthy(doc.channel) \/ ~Truthy(doc.thumbnail_url)

(***************************************************************************)
(* POST /summarize                                                         *)
(***************************************************************************)
ErrorResponse(status_code, detail) ==
    [status |-> status_code, detail |-> detail, transcript |-> <<>>, summary |-> <<>>,
     video_id |-> <<>>, url |-> <<>>, title |-> None, channel |-> None,
     thumbnail_url |-> None, is_cached |-> FALSE, oid |-> 0]

TranscriptResponse(transcript, summary, video_id, url, title, channel, thumbnail_url, is_cached, oid) ==
    [status |-> 200, detail |-> <<>>, transcript |-> transcript, summary |-> summary,
     video_id |-> video_id, url |-> url, title |-> title, channel |-> channel,
     thumbnail_url |-> thumbnail_url, is_cached |-> is_cached, oid |-> oid]

\* The 200 responses already returned for video_id, as the request starts.
PriorOf(video_id) == {e \in returned : e.video_id = video_id}

\* The entry of returned for a 200 response, kept while its record is stored.
Returned(st, resp) ==
    IF resp.status = 200 /\ resp.oid \in Oids(st)
    THEN {[video_id |-> resp.video_id, transcript |-> resp.transcript,
           summary |-> resp.summary, oid |-> resp.oid]}
    ELSE {}

\* A handler that serves no request: a new request takes the first one.
Free(p) == req[p].pc \in {"idle", "done"}

\* Lines 321-329: the video id is extracted (400 when there is none) and
\* find_one is awaited.
Summarize_Begin(p, url) ==
    /\ Free(p)
    /\ \A q \in Procs : Free(q) => p <= q
    /\ served < MaxRequests
    /\ served' = served + 1
    /\ LET video_id == extract_video_id(url)
       IN  IF video_id = None
           THEN req' = [req EXCEPT ![p] =
                    [IdleReq EXCEPT !.pc = "done", !.url = url,
                        !.resp = <<ErrorResponse(400, <<"[Could not extract video ID from URL]">>)>>]]
           ELSE req' = [req EXCEPT ![p] =
                    [IdleReq EXCEPT !.pc = "found", !.url = url, !.video_id = video_id,
                        !.existing = FindOne(store, video_id),
                        !.prior = PriorOf(video_id)]]
    /\ UNCHANGED <<store, next_oid, now, returned, hist, upd, status_checks, call>>

\* existing and "transcript" in existing and "summary" in existing
IsCached(existing) ==
    /\ existing # <<>>
    /\ existing[1].transcript # Missing
    /\ existing[1].summary # Missing

\* Lines 338-372: the cached result, its metadata fetched and stored when
\* one of title, channel, thumbnail_url is missing.
CachedBackfill(existing, m) == Truthy(m.title) /\ Truthy(m.channel)

\* The response of the cached path and the collection after it, m the
\* metadata fetched (fetch) or read from the record.
CachedResult(p, fetch, m) ==
    LET existing == req[p].existing[1]
        st == IF fetch /\ CachedBackfill(existing, m)
              THEN UpdateOne(store, existing.oid, MetadataFields(m))
              ELSE store
        resp == TranscriptResponse(existing.transcript, existing.summary,
                    existing.video_id, existing.url, m.title, m.channel,
                    m.thumbnail_url, TRUE, existing.oid)
    IN  /\ store' = st
        /\ req' = [req EXCEPT ![p].pc = "done", ![p].calls = m.calls, ![p].resp = <<resp>>]
        /\ returned' = returned \cup Returned(st, resp)

Summarize_Cached(p) ==
    /\ req[p].pc = "found"
    /\ IsCached(req[p].existing)
    /\ LET existing == req[p].existing[1]
       IN  IF LacksMetadata(existing)
           THEN \E search \in SearchAnswers, oembed \in OEmbedAnswers :
                    CachedResult(p, TRUE, get_video_metadata(req[p].video_id, search, oembed))
           ELSE CachedResult(p, FALSE,
                    [title |-> Get(existing.title), channel |-> Get(existing.channel),
                     thumbnail_url |-> Get(existing.thumbnail_url), calls |-> <<>>])
    /\ UNCHANGED <<next_oid, now, hist, upd, status_checks, served, call>>

\* A variant of UpdateData that also sets the transcript.
UpdateData_OverTranscript(summary, timestamp, m) ==
    [summary |-> summary, timestamp |-> timestamp, transcript |-> summary]
    @@ (IF Truthy(m.title) THEN [title |-> m.title] ELSE <<>>)
    @@ (IF Truthy(m.channel) THEN [channel |-> m.channel] ELSE <<>>)
    @@ (IF Truthy(m.thumbnail_url) THEN [thumbnail_url |-> m.thumbnail_url] ELSE <<>>)

\* A variant of UpdateData that sets the metadata whatever was fetched.
UpdateData_AllMetadata(summary, timestamp, m) ==
    [summary |-> summary, timestamp |-> timestamp, title |-> m.title,
     channel |-> m.channel, thumbnail_url |-> m.thumbnail_url]

\* Lines 401-419: the $set of the update of an existing record.
UpdateData(summary, timestamp, m) ==
    LET base == [summary |-> summary, timestamp |-> timestamp]
        t == IF Truthy(m.title) THEN [title |-> m.title] ELSE <<>>
        c == IF Truthy(m.channel) THEN [channel |-> m.channel] ELSE <<>>
        u == IF Truthy(m.thumbnail_url) THEN [thumbnail_url |-> m.thumbnail_url] ELSE <<>>
    IN  base @@ t @@ c @@ u

\* A variant of StoredTranscript that holds no summary.
StoredTranscript_NoSummary(oid, video_id, url, transcript, summary, m, timestamp) ==
    [oid |-> oid, id |-> oid, video_id |-> video_id, url |-> url,
     transcript |-> transcript, summary |-> Missing, title |-> m.title,
     channel |-> m.channel, thumbnail_url |-> m.thumbnail_url, timestamp |-> timestamp]

\* Lines 422-431: StoredTranscript(...).dict()
StoredTranscript(oid, video_id, url, transcript, summary, m, timestamp) ==
    [oid |-> oid, id |-> oid, video_id |-> video_id, url |-> url,
     transcript |-> transcript, summary |-> summary, title |-> m.title,
     channel |-> m.channel, thumbnail_url |-> m.thumbnail_url, timestamp |-> timestamp]

\* Lines 375-378: whether the transcript of the existing record is used.
UsesStoredTranscript(existing) ==
    /\ existing # <<>>
    /\ existing[1].transcript # Missing
    /\ existing[1].transcript # <<>>
    /\ existing[1].transcript # None

\* Lines 380-387: the transcript cannot be fetched; str(e) of the
\* HTTPException raised is "<status_code>: <detail>".
TranscriptFailed(p, answer) ==
    /\ req' = [req EXCEPT ![p].pc = "done", ![p].asked = <<answer>>,
                  ![p].calls = <<"transcript">>,
                  ![p].resp = <<ErrorResponse(500,
                      StatusStr(get_transcript(answer).status_code) \o <<":", " ">>
                      \o get_transcript(answer).detail)>>]
    /\ UNCHANGED <<store, next_oid, now, returned>>

\* Lines 389-442: the metadata m and the summary are fetched and the record
\* is updated or inserted; asked is the answer of the transcript API, empty
\* when the transcript is the record's.
StoreResult(p, asked, transcript, m, llm) ==
    LET stored == asked = <<>>
        existing == req[p].existing
        video_id == req[p].video_id
        summary == summarize_text(transcript, llm)
        st == IF existing # <<>>
              THEN UpdateOne(store, existing[1].oid, UpdateData(summary, now, m))
              ELSE Append(store, StoredTranscript(next_oid, video_id, req[p].url,
                              transcript, summary, m, now))
        oid == IF existing # <<>> THEN existing[1].oid ELSE next_oid
        resp == TranscriptResponse(transcript, summary, video_id, req[p].url,
                    m.title, m.channel, m.thumbnail_url, stored, oid)
    IN  /\ store' = st
        /\ next_oid' = IF existing # <<>> THEN next_oid ELSE next_oid + 1
        /\ now' = now + 1
        /\ req' = [req EXCEPT ![p].pc = "done", ![p].asked = asked,
                      ![p].calls = (IF stored THEN <<>> ELSE <<"transcript">>)
                                   \o m.calls \o <<"openai">>,
                      ![p].resp = <<resp>>]
        /\ returned' = returned \cup Returned(st, resp)

\* Lines 374-442: the transcript, the metadata and the summary are fetched
\* and the record is updated or inserted.
Summarize_Fresh(p) ==
    /\ req[p].pc = "found"
    /\ ~IsCached(req[p].existing)
    /\ IF UsesStoredTranscript(req[p].existing)
       THEN \E search \in SearchAnswers, oembed \in OEmbedAnswers, llm \in LlmAnswers :
                StoreResult(p, <<>>, req[p].existing[1].transcript,
                    get_video_metadata(req[p].video_id, search, oembed), llm)
       ELSE \E answer \in TranscriptAnswers :
                IF get_transcript(answer).raised
                THEN TranscriptFailed(p, answer)
                ELSE \E search \in SearchAnswers, oembed \in OEmbedAnswers,
                        llm \in LlmAnswers :
                         StoreResult(p, <<answer>>, get_transcript(answer).value,
                             get_video_metadata(req[p].video_id, search, oembed), llm)
    /\ UNCHANGED <<hist, upd, status_checks, served, call>>

(***************************************************************************)
(* DELETE /admin/transcript/{transcript_id}, with the admin key, for a     *)
(* stored id.  The responses returned from the deleted record are no       *)
(* longer tracked.                                                         *)
(***************************************************************************)
delete_transcript(id) ==
    /\ served < MaxRequests
    /\ \E i \in 1..Len(store) : store[i].id = id
    /\ served' = served + 1
    /\ store' = DeleteOne(store, id)
    /\ returned' = {e \in returned : e.oid # id}
    /\ req' = [p \in Procs |-> [req[p] EXCEPT !.prior = {e \in @ : e.oid # id}]]
    /\ UNCHANGED <<next_oid, now, hist, upd, status_checks, call>>

(***************************************************************************)
(* GET /history                                                            *)
(***************************************************************************)
HistoryLimit == 20

\* sort("timestamp", -1): an insertion sort, newest first.
RECURSIVE InsertByTimestamp(_, _)
InsertByTimestamp(doc, sorted) ==
    IF sorted = <<>> THEN <<doc>>
    ELSE IF doc.timestamp > sorted[1].timestamp THEN <<doc>> \o sorted
    ELSE <<sorted[1]>> \o InsertByTimestamp(doc, Tail(sorted))

RECURSIVE SortByTimestamp(_)
SortByTimestamp(docs) ==
    IF docs = <<>> THEN <<>>
    ELSE InsertByTimestamp(docs[Len(docs)], SortByTimestamp(SubSeq(docs, 1, Len(docs) - 1)))

\* A variant of HistoryQuery without the sort.
HistoryQuery_Unsorted(st) == Take(st, HistoryLimit)

\* Line 454: find().sort("timestamp", -1).to_list(20)
HistoryQuery(st) == Take(SortByTimestamp(st), HistoryLimit)

\* A variant of HistoryBackfill that looks at the channel alone.
HistoryBackfill_ChannelOnly(item, m) == Truthy(m.channel)

\* Lines 464-477: whether the fetched metadata is stored.
HistoryBackfill(item, m) == Truthy(m.title) /\ Truthy(m.channel)

\* Line 459: whether the metadata of the item is fetched.
HistoryFetches(item) == LacksMetadata(item) /\ item.video_id # Missing

\* The first item from the i-th on whose metadata is fetched, or Len(items) + 1.
NextFetched(items, i) ==
    LET at == {k \in i..Len(items) : HistoryFetches(items[k])}
    IN  IF at = {} THEN Len(items) + 1 ELSE CHOOSE k \in at : \A j \in at : k <= j

\* StoredTranscript(**item): video_id, url, transcript and summary are
\* required strings; title, channel and thumbnail_url default to None.
Validates(item) ==
    \A f \in {"video_id", "url", "transcript", "summary"} :
        item[f] # Missing /\ item[f] # None

AsStoredTranscript(item) ==
    [item EXCEPT !.title = Get(@), !.channel = Get(@), !.thumbnail_url = Get(@)]

\* Line 481: the response, 500 when an item does not validate.
HistoryResponse(items) ==
    IF \A k \in 1..Len(items) : Validates(items[k])
    THEN [status |-> 200, items |-> [k \in 1..Len(items) |-> AsStoredTranscript(items[k])]]
    ELSE [status |-> 500, items |-> <<>>]

\* The loop runs on without awaiting to the next item whose metadata is
\* fetched, and to the return when there is none.
HistoryResume(items, i) ==
    IF NextFetched(items, i) > Len(items)
    THEN [IdleLoop EXCEPT !.pc = "done", !.items = items, !.i = Len(items) + 1,
                          !.resp = <<HistoryResponse(items)>>]
    ELSE [IdleLoop EXCEPT !.pc = "loop", !.items = items, !.i = NextFetched(items, i)]

History_Find ==
    /\ hist.pc \in {"idle", "done"}
    /\ served < MaxRequests
    /\ served' = served + 1
    /\ hist' = HistoryResume(HistoryQuery(store), 1)
    /\ UNCHANGED <<store, next_oid, now, req, returned, upd, status_checks, call>>

\* Lines 457-479: the iteration for an item whose metadata is fetched.
History_Item(search, oembed) ==
    /\ hist.pc = "loop"
    /\ LET item == hist.items[hist.i]
           m == get_video_metadata(item.video_id, search, oembed)
           write == HistoryBackfill(item, m)
           items == [hist.items EXCEPT ![hist.i] =
                        IF write THEN SetFields(item, MetadataFields(m)) ELSE item]
       IN  /\ store' = IF write THEN UpdateOne(store, item.oid, MetadataFields(m))
                       ELSE store
           /\ hist' = HistoryResume(items, hist.i + 1)
    /\ UNCHANGED <<next_oid, now, req, returned, upd, status_checks, served, call>>

(***************************************************************************)
(* POST /update-metadata                                                   *)
(***************************************************************************)
UpdateLimit == 100

\* {"title": None} matches a null and an absent title.
NullOrMissing(x) == x = None \/ x = Missing

RECURSIVE WithoutMetadata(_)
WithoutMetadata(st) ==
    IF st = <<>> THEN <<>>
    ELSE (IF \/ NullOrMissing(st[1].title)
             \/ NullOrMissing(st[1].channel)
             \/ NullOrMissing(st[1].thumbnail_url)
          THEN <<st[1]>> ELSE <<>>)
         \o WithoutMetadata(Tail(st))

\* Lines 487-496: find({"$or": [...]}).to_list(100)
UpdateQuery(st) == Take(WithoutMetadata(st), UpdateLimit)

\* Lines 506-516: whether the fetched metadata is stored.
UpdateBackfill(video, m) == Truthy(m.title) /\ Truthy(m.channel)

\* Line 520: the response, once the loop is over.
UpdateResume(items, i, updated_count) ==
    IF i > Len(items)
    THEN [IdleLoop EXCEPT !.pc = "done", !.items = items, !.i = i,
                          !.updated_count = updated_count,
                          !.resp = <<[status |-> 200, updated_videos |-> updated_count,
                                      total_processed |-> Len(items)]>>]
    ELSE [IdleLoop EXCEPT !.pc = "loop", !.items = items, !.i = i,
                          !.updated_count = updated_count]

Update_Find ==
    /\ upd.pc \in {"idle", "done"}
    /\ served < MaxRequests
    /\ served' = served + 1
    /\ upd' = UpdateResume(UpdateQuery(store), 1, 0)
    /\ UNCHANGED <<store, next_oid, now, req, returned, hist, status_checks, call>>

\* Lines 501-518: one iteration of the loop over the videos.
Update_Item(search, oembed) ==
    /\ upd.pc = "loop"
    /\ LET video == upd.items[upd.i]
           m == get_video_metadata(video.video_id, search, oembed)
           write == video.video_id # Missing /\ UpdateBackfill(video, m)
       IN  /\ store' = IF write THEN UpdateOne(store, video.oid, MetadataFields(m))
                       ELSE store
           /\ upd' = UpdateResume(upd.items, upd.i + 1,
                         IF write THEN upd.updated_count + 1 ELSE upd.updated_count)
    /\ UNCHANGED <<next_oid, now, req, returned, hist, status_checks, served, call>>

(***************************************************************************)
(* POST /status                                                            *)
(***************************************************************************)
create_status_check ==
    /\ served < MaxRequests
    /\ served' = served + 1
    /\ status_checks' = status_checks + 1
    /\ UNCHANGED <<store, next_oid, now, req, returned, hist, upd, call>>

(***************************************************************************)
(* The program started on an empty collection.  Every document it inserts  *)
(* holds title, channel and thumbnail_url as strings, so Update_Item is    *)
(* never enabled here and is left to SpecLegacy.                           *)
(***************************************************************************)
Next ==
    \/ \E p \in Procs, url \in Urls : Summarize_Begin(p, url)
    \/ \E p \in Procs : Summarize_Cached(p)
    \/ \E p \in Procs : Summarize_Fresh(p)
    \/ \E id \in 1..(next_oid - 1) : delete_transcript(id)
    \/ History_Find
    \/ \E search \in SearchAnswers, oembed \in OEmbedAnswers : History_Item(search, oembed)
    \/ Update_Find
    \/ create_status_check

Spec == Init /\ [][Next]_vars

(***************************************************************************)
(* The program started on a collection that holds one document written     *)
(* by something else, with null or no metadata: one without a summary, or  *)
(* one without a transcript and a summary.                                 *)
(***************************************************************************)
LegacyDoc(transcript, summary, title) ==
    [oid |-> 1, id |-> 1, video_id |-> Vid1, url |-> WatchPrefix \o Vid1,
     transcript |-> transcript, summary |-> summary, title |-> title,
     channel |-> title, thumbnail_url |-> title, timestamp |-> 0]

LegacyDocs ==
    {LegacyDoc(<<"a", " ", "b">>, Missing, None),
     LegacyDoc(Missing, Missing, Missing)}

InitLegacy ==
    /\ store \in {<<d>> : d \in LegacyDocs}
    /\ next_oid = 2
    /\ now = 1
    /\ req = [p \in Procs |-> IdleReq]
    /\ returned = {}
    /\ hist = IdleLoop
    /\ upd = IdleLoop
    /\ status_checks = 0
    /\ served = 0
    /\ call = NoCall

NextLegacy ==
    \/ Next
    \/ \E search \in SearchAnswers, oembed \in OEmbedAnswers : Update_Item(search, oembed)

SpecLegacy == InitLegacy /\ [][NextLegacy]_vars

(***************************************************************************)
(* summarize_text applied alone, to every text of at most MaxTextLen       *)
(* characters of TextChars and to two long texts, of six and of twelve     *)
(* sentences.                                                              *)
(***************************************************************************)
MaxTextLen == 3

TextChars == {"a", " ", ".", "\n", MusicNote}

TextsOfLen(n) == [1..n -> TextChars]

\* count sentences of width characters, the k-th one made of the k-th letter.
Letters == <<"a", "b", "c", "d", "e", "f", "g", "h", "i", "j", "k", "l">>
LongText(count, width) ==
    Join([k \in 1..count |-> [i \in 1..width |-> Letters[k]]], <<".", " ">>)

Texts ==
    UNION {TextsOfLen(n) : n \in 0..MaxTextLen} \cup {LongText(6, 100), LongText(12, 50)}

LlmContents == {<<>>, <<"s">>, <<"a", ".", " ", "b">>}

InitSummarize ==
    /\ store = <<>>
    /\ next_oid = 1
    /\ now = 1
    /\ req = [p \in Procs |-> IdleReq]
    /\ returned = {}
    /\ hist = IdleLoop
    /\ upd = IdleLoop
    /\ status_checks = 0
    /\ served = 0
    /\ \E text \in Texts, raises \in BOOLEAN, content \in LlmContents :
           call = [fn |-> "summarize_text", done |-> FALSE, text |-> text,
                   llm |-> [raises |-> raises, content |-> IF raises THEN <<>> ELSE content],
                   out |-> <<>>]

Call_summarize_text ==
    /\ call.fn = "summarize_text"
    /\ ~call.done
    /\ call' = [call EXCEPT !.done = TRUE, !.out = summarize_text(call.text, call.llm)]
    /\ UNCHANGED <<store, next_oid, now, req, returned, hist, upd, status_checks, served>>

SpecSummarize == InitSummarize /\ [][Call_summarize_text]_vars
(***************************************************************************)
(* get_video_metadata applied alone, to every pair of answers.             *)
(***************************************************************************)
MetadataValues == {<<>>, <<"x">>}

SearchResults ==
    {<<>>}
    \cup {<<[title |-> t, channel |-> c, thumbnail |-> u]>> :
             t \in MetadataValues, c \in MetadataValues, u \in MetadataValues}
    \cup {<<[title |-> <<"x">>, channel |-> <<"x">>, thumbnail |-> <<"x">>],
            [title |-> <<"y">>, channel |-> <<"y">>, thumbnail |-> <<"y">>]>>}

AllSearchAnswers ==
    {[raises |-> TRUE, status |-> 0, has_results |-> FALSE, results |-> <<>>],
     [raises |-> FALSE, status |-> 500, has_results |-> FALSE, results |-> <<>>],
     [raises |-> FALSE, status |-> 500, has_results |-> TRUE,
      results |-> <<[title |-> <<"x">>, channel |-> <<"x">>, thumbnail |-> <<"x">>]>>],
     [raises |-> FALSE, status |-> 200, has_results |-> FALSE, results |-> <<>>]}
    \cup {[raises |-> FALSE, status |-> 200, has_results |-> TRUE, results |-> r] :
             r \in SearchResults}

AllOEmbedAnswers ==
    {[raises |-> TRUE, status |-> 0, title |-> <<>>, author |-> <<>>],
     [raises |-> FALSE, status |-> 404, title |-> <<>>, author |-> <<>>]}
    \cup {[raises |-> FALSE, status |-> 200, title |-> t, author |-> a] :
             t \in {<<>>, <<"t">>}, a \in {<<>>, <<"c">>}}

InitMetadata ==
    /\ store = <<>>
    /\ next_oid = 1
    /\ now = 1
    /\ req = [p \in Procs |-> IdleReq]
    /\ returned = {}
    /\ hist = IdleLoop
    /\ upd = IdleLoop
    /\ status_checks = 0
    /\ served = 0
    /\ \E video_id \in {Vid1, Vid2}, search \in AllSearchAnswers, oembed \in AllOEmbedAnswers :
           call = [fn |-> "get_video_metadata", done |-> FALSE, video_id |-> video_id,
                   search |-> search, oembed |-> oembed,
                   out |-> [title |-> <<>>, channel |-> <<>>, thumbnail_url |-> <<>>,
                            calls |-> <<>>]]

Call_get_video_metadata ==
    /\ call.fn = "get_video_metadata"
    /\ ~call.done
    /\ call' = [call EXCEPT !.done = TRUE,
                   !.out = get_video_metadata(call.video_id, call.search, call.oembed)]
    /\ UNCHANGED <<store, next_oid, now, req, returned, hist, upd, status_checks, served>>

SpecMetadata == InitMetadata /\ [][Call_get_video_metadata]_vars

(***************************************************************************)
(* GET /history alone, on a collection of up to MaxSeed documents that     *)
(* POST /summarize inserted: the timestamps rise with the natural order,   *)
(* fall with it, or repeat; every fifth document has an empty title.       *)
(***************************************************************************)
MaxSeed == 22

SeedId(k) == <<"v", "i", "d", "e", "o", "-", "i", "d", "-", Digit(k \div 10), Digit(k % 10)>>

SeedTimestamp(order, k) ==
    IF order = "rising" THEN k
    ELSE IF order = "falling" THEN 100 - k
    ELSE (k * 7) % 5

SeedDoc(order, k) ==
    StoredTranscript(k, SeedId(k), ShortPrefix \o SeedId(k), <<"a">>, <<"s">>,
        [title |-> IF k % 5 = 0 THEN <<>> ELSE <<"T">>, channel |-> <<"C">>,
         thumbnail_url |-> <<"U">>],
        SeedTimestamp(order, k))

InitHistory ==
    /\ \E n \in 0..MaxSeed, order \in {"rising", "falling", "repeating"} :
           /\ store = [k \in 1..n |-> SeedDoc(order, k)]
           /\ next_oid = n + 1
    /\ now = 101
    /\ req = [p \in Procs |-> IdleReq]
    /\ returned = {}
    /\ hist = IdleLoop
    /\ upd = IdleLoop
    /\ status_checks = 0
    /\ served = 0
    /\ call = NoCall

NextHistory ==
    \/ History_Find
    \/ \E search \in SearchAnswers, oembed \in OEmbedAnswers : History_Item(search, oembed)

SpecHistory == InitHistory /\ [][NextHistory]_vars

(***************************************************************************)
(* The program after a first POST /summarize for a video whose transcript  *)
(* is six sentences of a hundred characters and whose LLM call raised:     *)
(* the record inserted and the response returned hold the extractive       *)
(* summary, which ends with the note to try again later.                   *)
(***************************************************************************)
RetryUrl == WatchPrefix \o Vid1

RetryTranscript == LongText(6, 100)

RetryDoc(m) ==
    StoredTranscript(1, Vid1, RetryUrl, RetryTranscript,
        summarize_text(RetryTranscript, [raises |-> TRUE, content |-> <<>>]), m, 1)

RetryResponse(doc) ==
    TranscriptResponse(doc.transcript, doc.summary, doc.video_id, doc.url, doc.title,
        doc.channel, doc.thumbnail_url, FALSE, doc.oid)

InitRetry ==
    /\ \E search \in SearchAnswers, oembed \in OEmbedAnswers :
           LET m == get_video_metadata(Vid1, search, oembed)
               doc == RetryDoc(m)
           IN  /\ store = <<doc>>
               /\ req = [p \in Procs |->
                            IF p = 1
                            THEN [IdleReq EXCEPT !.pc = "done", !.url = RetryUrl,
                                     !.video_id = Vid1,
                                     !.asked = <<[status |-> 200, has_transcripts |-> TRUE,
                                                  transcripts |-> <<[start |-> 0,
                                                      text |-> RetryTranscript]>>]>>,
                                     !.calls = <<"transcript">> \o m.calls \o <<"openai">>,
                                     !.resp = <<RetryResponse(doc)>>]
                            ELSE IdleReq]
               /\ returned = Returned(<<doc>>, RetryResponse(doc))
    /\ next_oid = 2
    /\ now = 2
    /\ hist = IdleLoop
    /\ upd = IdleLoop
    /\ status_checks = 0
    /\ served = 1
    /\ call = NoCall

NextRetry ==
    \/ \E p \in Procs, url \in Urls : Summarize_Begin(p, url)
    \/ \E p \in Procs : Summarize_Cached(p)
    \/ \E p \in Procs : Summarize_Fresh(p)
    \/ \E id \in 1..(next_oid - 1) : delete_transcript(id)

SpecRetry == InitRetry /\ [][NextRetry]_vars

(***************************************************************************)
(* get_channel_videos applied alone, to every channel URL of ChannelUrls,  *)
(* every oEmbed answer and every pair of pages.                            *)
(***************************************************************************)
\* The watch links of the fullest page.
MaxLinks == 7

ChannelUrls ==
    {<<>>,
     YouTubeHost \o <<"c", "h", "a", "n", "n", "e", "l", "/", "U", "C", "1", "?", "x">>,
     YouTubeHost \o <<"@", "a", "b">> \o VideosPath,
     YouTubeHost \o <<"@">>,
     YouTubeHost \o <<"c", "/", "n">>,
     YouTubeHost \o <<"u", "s", "e", "r", "/", "u", "/">>,
     YouTubeHost \o <<"w", "a", "t", "c", "h", "?", "v", "=">> \o Vid1,
     YouTubeHost \o <<"x">>,
     <<"e", "x", "a", "m", "p", "l", "e", ".", "o", "r", "g", "/">>}

ChannelOEmbedAnswers ==
    {[raises |-> TRUE, status |-> 0, title |-> Missing, author |-> Missing],
     [raises |-> FALSE, status |-> 404, title |-> Missing, author |-> Missing],
     [raises |-> FALSE, status |-> 200, title |-> <<"t">>, author |-> Missing],
     [raises |-> FALSE, status |-> 200, title |-> <<"t">>, author |-> <<"A", " ", "b">>]}

LinkTo(k, oembed) == [id |-> SeedId(k), oembed |-> oembed]

OEmbedOk == [raises |-> FALSE, status |-> 200, title |-> <<"t">>, author |-> <<"c">>]
OEmbedBare == [raises |-> FALSE, status |-> 200, title |-> Missing, author |-> Missing]
OEmbedNotFound == [raises |-> FALSE, status |-> 404, title |-> Missing, author |-> Missing]
OEmbedRaises == [raises |-> TRUE, status |-> 0, title |-> Missing, author |-> Missing]

Pages ==
    {[raises |-> TRUE, status |-> 0, og_title |-> Missing, links |-> <<>>],
     [raises |-> FALSE, status |-> 404, og_title |-> <<"F">> \o YouTubeSuffix,
      links |-> <<LinkTo(1, OEmbedOk)>>],
     [raises |-> FALSE, status |-> 200, og_title |-> Missing, links |-> <<>>],
     [raises |-> FALSE, status |-> 200, og_title |-> <<"F">> \o YouTubeSuffix, links |-> <<>>],
     [raises |-> FALSE, status |-> 200, og_title |-> YouTubeSuffix, links |-> <<>>],
     [raises |-> FALSE, status |-> 200, og_title |-> YouTubeSuffix,
      links |-> <<LinkTo(1, OEmbedRaises), LinkTo(2, OEmbedNotFound)>>],
     [raises |-> FALSE, status |-> 200, og_title |-> <<"F">> \o YouTubeSuffix,
      links |-> <<LinkTo(1, OEmbedOk), LinkTo(1, OEmbedOk), LinkTo(2, OEmbedNotFound),
                  LinkTo(3, OEmbedBare)>>],
     [raises |-> FALSE, status |-> 200, og_title |-> Missing,
      links |-> [k \in 1..MaxLinks |-> LinkTo(k, OEmbedOk)]]}

InitChannel ==
    /\ store = <<>>
    /\ next_oid = 1
    /\ now = 1
    /\ req = [p \in Procs |-> IdleReq]
    /\ returned = {}
    /\ hist = IdleLoop
    /\ upd = IdleLoop
    /\ status_checks = 0
    /\ served = 0
    /\ \E channel_url \in ChannelUrls, oembed \in ChannelOEmbedAnswers,
          page1 \in Pages, page2 \in Pages :
           call = [fn |-> "get_channel_videos", done |-> FALSE, channel_url |-> channel_url,
                   oembed |-> oembed, page1 |-> page1, page2 |-> page2,
                   out |-> [status |-> 0, detail |-> <<>>, channel_name |-> None,
                            videos |-> <<>>, urls |-> <<>>]]

Call_get_channel_videos ==
    /\ call.fn = "get_channel_videos"
    /\ ~call.done
    /\ call' = [call EXCEPT !.done = TRUE,
                   !.out = get_channel_videos(call.channel_url, call.oembed,
                                              call.page1, call.page2)]
    /\ UNCHANGED <<store, next_oid, now, req, returned, hist, upd, status_checks, served>>

SpecChannel == InitChannel /\ [][Call_get_channel_videos]_vars

(***************************************************************************)
(* summarize_song_lyrics applied alone, to lyrics of up to MaxLyrics       *)
(* distinct lines, one letter each, with or without a repeated line, a     *)
(* line of music notes and a blank line.                                   *)
(***************************************************************************)
MaxLyrics == 11

\* n distinct lines; then line repeat again when repeat > 0; a line with a
\* music note in second place when note; a blank line in third place when blank.
LyricsText(n, repeat, note, blank) ==
    LET distinct == [k \in 1..n |-> <<Letters[k]>>]
        lines == (IF n >= 1 THEN <<distinct[1]>> ELSE <<>>)
                 \o (IF note THEN << <<MusicNote, " ", "x", " ", MusicNote>> >> ELSE <<>>)
                 \o (IF blank THEN << <<" ">> >> ELSE <<>>)
                 \o (IF n >= 2 THEN SubSeq(distinct, 2, n) ELSE <<>>)
                 \o (IF repeat > 0 THEN << <<" ">> \o distinct[repeat] >> ELSE <<>>)
    IN  Join(lines, <<"\n">>)

InitLyrics ==
    /\ store = <<>>
    /\ next_oid = 1
    /\ now = 1
    /\ req = [p \in Procs |-> IdleReq]
    /\ returned = {}
    /\ hist = IdleLoop
    /\ upd = IdleLoop
    /\ status_checks = 0
    /\ served = 0
    /\ \E n \in 0..MaxLyrics, note \in BOOLEAN, blank \in BOOLEAN :
           \E repeat \in 0..n :
               call = [fn |-> "summarize_song_lyrics", done |-> FALSE, lines |-> n,
                       text |-> LyricsText(n, repeat, note, blank), out |-> <<>>]

Call_summarize_song_lyrics ==
    /\ call.fn = "summarize_song_lyrics"
    /\ ~call.done
    /\ call' = [call EXCEPT !.done = TRUE, !.out = summarize_song_lyrics(call.text)]
    /\ UNCHANGED <<store, next_oid, now, req, returned, hist, upd, status_checks, served>>

SpecLyrics == InitLyrics /\ [][Call_summarize_song_lyrics]_vars

(***************************************************************************)
(* extract_video_id applied alone, to every URL made of a prefix of        *)
(* UrlForms and a tail of up to MaxTail characters: characters of the id   *)
(* class, with at most one of them replaced by a period.                   *)
(***************************************************************************)
MaxTail == 12

WatchForm ==
    <<"h", "t", "t", "p", "s", ":", "/", "/", "w", "w", "w", ".", "y", "o", "u", "t", "u", "b", "e", ".", "c", "o", "m", "/", "w", "a", "t", "c", "h", "?", "v", "=">>

ShortForm == <<"h", "t", "t", "p", "s", ":", "/", "/", "y", "o", "u", "t", "u", ".", "b", "e", "/">>

EmbedForm ==
    <<"h", "t", "t", "p", "s", ":", "/", "/", "w", "w", "w", ".", "y", "o", "u", "t", "u", "b", "e", ".", "c", "o", "m", "/", "e", "m", "b", "e", "d", "/">>

\* The three forms of a video URL, and others: a mobile host, a path, a
\* bare "v=", a bare "/", no prefix.
VideoForms == {WatchForm, ShortForm, EmbedForm}

UrlForms ==
    VideoForms \cup
    {<<"h", "t", "t", "p", "s", ":", "/", "/", "m", ".", "y", "o", "u", "t", "u", "b", "e", ".", "c", "o", "m", "/", "w", "a", "t", "c", "h", "?", "f", "e", "a", "t", "u", "r", "e", "=", "s", "h", "a", "r", "e", "&", "v", "=">>,
     <<"h", "t", "t", "p", "s", ":", "/", "/", "w", "w", "w", ".", "y", "o", "u", "t", "u", "b", "e", ".", "c", "o", "m", "/", "c", "h", "a", "n", "n", "e", "l", "_", "v", "i", "d", "e", "o", "s", "/", "w", "a", "t", "c", "h", "?", "v", "=">>,
     <<"v", "=">>, <<"/">>, <<>>}

\* The characters of the tails, taken in a cycle.
TailChars == <<"d", "Q", "w", "4", "_", "9", "W", "-", "X", "c", "0", "z", "A">>

\* n characters of the class, the bad-th one (none when bad = 0) a period.
UrlTail(n, bad) ==
    [k \in 1..n |-> IF k = bad THEN "." ELSE TailChars[((k - 1) % Len(TailChars)) + 1]]

InitExtract ==
    /\ store = <<>>
    /\ next_oid = 1
    /\ now = 1
    /\ req = [p \in Procs |-> IdleReq]
    /\ returned = {}
    /\ hist = IdleLoop
    /\ upd = IdleLoop
    /\ status_checks = 0
    /\ served = 0
    /\ \E form \in UrlForms, n \in 0..MaxTail :
           \E bad \in 0..n :
               call = [fn |-> "extract_video_id", done |-> FALSE, form |-> form,
                       tail |-> UrlTail(n, bad), url |-> form \o UrlTail(n, bad), out |-> <<>>]

Call_extract_video_id ==
    /\ call.fn = "extract_video_id"
    /\ ~call.done
    /\ call' = [call EXCEPT !.done = TRUE, !.out = extract_video_id(call.url)]
    /\ UNCHANGED <<store, next_oid, now, req, returned, hist, upd, status_checks, served>>

SpecExtract == InitExtract /\ [][Call_extract_video_id]_vars

(***************************************************************************)
(* The properties                                                          *)
(***************************************************************************)
\* C1: in every reachable state the transcripts collection holds at most one
\* record per video_id, also when requests for the same video not stored yet
\* interleave at their awaits.
C1_OneRecordPerVideo ==
    \A i \in 1..Len(store), j \in 1..Len(store) :
        store[i].video_id = store[j].video_id => i = j

\* C2: a POST /summarize that began after a 200 response for the same video
\* (the record not deleted since) returns 200 with is_cached true and with
\* the transcript and the summary of that earlier response.
C2_LaterRequestCached ==
    \A p \in Procs :
        (req[p].pc = "done" /\ req[p].prior # {}) =>
            /\ req[p].resp[1].status = 200
            /\ req[p].resp[1].is_cached
            /\ \A e \in req[p].prior :
                   /\ e.transcript = req[p].resp[1].transcript
                   /\ e.summary = req[p].resp[1].summary

C4_TranscriptKept ==
    [][\A i \in 1..Len(store), j \in 1..Len(store') :
           (store[i].oid = store'[j].oid /\ store[i].transcript # Missing)
               => store'[j].transcript = store[i].transcript]_vars

\* A record that held a transcript before POST /summarize wrote a new summary
\* into it, or before a metadata backfill wrote into it.
C4_Witness ==
    \E i \in 1..Len(store) :
        /\ store[i].oid = 1
        /\ store[i].transcript = <<"a", " ", "b">>
        /\ store[i].summary # Missing
        /\ store[i].timestamp > 0

\* The step in which handler p of POST /summarize, having found a record it
\* cannot serve from, returns 200.
C5_Regenerates(p) ==
    /\ req[p].pc = "found"
    /\ req'[p].pc = "done"
    /\ req[p].existing # <<>>
    /\ ~IsCached(req[p].existing)
    /\ req'[p].resp[1].status = 200

\* v when the fetched value is non-empty, else what the record held.
C5_Overwritten(fetched, held) == IF Truthy(fetched) THEN fetched ELSE held

\* C5: when POST /summarize generates a summary for a video that has a
\* record, it writes into that record: the summary is the new one, the
\* timestamp the current time, each of title, channel and thumbnail_url is
\* overwritten only when the fetched value is non-empty, every other field
\* and every other record is left alone, and no record is inserted.
C5_UpdateInPlace ==
    [][\A p \in Procs :
           C5_Regenerates(p) =>
               /\ Len(store') = Len(store)
               /\ next_oid' = next_oid
               /\ \A i \in 1..Len(store) :
                      IF store[i].oid = req[p].existing[1].oid
                      THEN /\ store'[i].summary = req'[p].resp[1].summary
                           /\ store'[i].timestamp = now
                           /\ now' > now
                           /\ store'[i].title =
                                  C5_Overwritten(req'[p].resp[1].title, store[i].title)
                           /\ store'[i].channel =
                                  C5_Overwritten(req'[p].resp[1].channel, store[i].channel)
                           /\ store'[i].thumbnail_url =
                                  C5_Overwritten(req'[p].resp[1].thumbnail_url,
                                                 store[i].thumbnail_url)
                           /\ \A f \in {"oid", "id", "video_id", "url", "transcript"} :
                                  store'[i][f] = store[i][f]
                      ELSE store'[i] = store[i]]_vars

\* A summary was written into the record found, with an empty title fetched
\* (kept as it was) and a non-empty channel fetched (overwritten).
C5_Witness ==
    \E p \in Procs :
        /\ req[p].pc = "done"
        /\ req[p].existing # <<>>
        /\ ~IsCached(req[p].existing)
        /\ req[p].resp[1].status = 200
        /\ req[p].resp[1].title = <<>>
        /\ Truthy(req[p].resp[1].channel)
        /\ \E i \in 1..Len(store) :
               /\ store[i].oid = req[p].existing[1].oid
               /\ store[i].summary = req[p].resp[1].summary
               /\ store[i].title = req[p].existing[1].title
               /\ store[i].channel = req[p].resp[1].channel

\* The first element of every summary the except branch builds.
C6_FallbackHeaders == {"[song-header]", "[too-short]", "[summary-header]", "[apology]"}

\* C6: the fallback summarizer is used only when the LLM call fails: when
\* the call returns, summarize_text returns exactly the message content, and
\* a summary that begins as a fallback summary does is returned only when the
\* call raised.
C6_FallbackOnlyOnFailure ==
    (call.fn = "summarize_text" /\ call.done) =>
        /\ ~call.llm.raises => call.out = call.llm.content
        /\ (call.out # <<>> /\ call.out[1] \in C6_FallbackHeaders) => call.llm.raises

\* The LLM call returned an empty content for a text with lyrics in it, and
\* the empty content is the summary.
C6_Witness ==
    /\ call.fn = "summarize_text"
    /\ call.done
    /\ ~call.llm.raises
    /\ call.llm.content = <<>>
    /\ Contains(call.text, <<MusicNote>>)
    /\ call.out = <<>>

\* Whether "v=" or "/" is followed in url by IdLen characters of the class.
C7_HasVideoId(url) ==
    \E i \in 1..Len(url) :
        /\ url[i] = "/" \/ (i > 1 /\ url[i - 1] = "v" /\ url[i] = "=")
        /\ i + IdLen <= Len(url)
        /\ \A k \in 1..IdLen : url[i + k] \in IdChars

\* C7: POST /summarize with a URL that holds no video identifier responds
\* 400 at once: no transcript, metadata or LLM call is made and the
\* collection is left as it was.
C7_InvalidUrlRejected ==
    [][\A p \in Procs, url \in Urls :
           (~C7_HasVideoId(url) /\ Summarize_Begin(p, url)) =>
               /\ req'[p].pc = "done"
               /\ req'[p].resp[1].status = 400
               /\ req'[p].calls = <<>>
               /\ store' = store]_vars

\* A request with the URL .../watch?v=invalid was answered 400 while the
\* collection held a record.
C7_Witness ==
    \E p \in Procs :
        /\ req[p].pc = "done"
        /\ req[p].url # <<>>
        /\ ~C7_HasVideoId(req[p].url)
        /\ req[p].resp[1].status = 400
        /\ store # <<>>

\* C8: every 200 response of POST /summarize carries a non-empty transcript
\* and a non-empty summary.
C8_NonEmptyResponse ==
    \A p \in Procs :
        (req[p].pc = "done" /\ req[p].resp[1].status = 200) =>
            /\ req[p].resp[1].transcript # <<>>
            /\ req[p].resp[1].summary # <<>>

\* SearchAPI answered 200 with a non-empty video_results list.
C9_SearchResult(search) ==
    ~search.raises /\ search.status = 200 /\ search.has_results /\ search.results # <<>>

\* C9: get_video_metadata returns in every case, and tries its sources in
\* order: the SearchAPI result when SearchAPI answers 200 with a non-empty
\* video_results list, and then the oEmbed endpoint is not contacted; else
\* the oEmbed result when oEmbed answers 200; else the default triple.
C9_SourcesInOrder ==
    (call.fn = "get_video_metadata" /\ call.done) =>
        IF C9_SearchResult(call.search)
        THEN /\ call.out.title = call.search.results[1].title
             /\ call.out.channel = call.search.results[1].channel
             /\ call.out.thumbnail_url = call.search.results[1].thumbnail
             /\ call.out.calls = <<"searchapi">>
        ELSE /\ call.out.calls = <<"searchapi", "oembed">>
             /\ IF ~call.oembed.raises /\ call.oembed.status = 200
                THEN /\ call.out.title = call.oembed.title
                     /\ call.out.channel = call.oembed.author
                     /\ call.out.thumbnail_url =
                            <<"[https://img.youtube.com/vi/]">> \o call.video_id
                            \o <<"[/maxresdefault.jpg]">>
                ELSE /\ call.out.title =
                            <<"[YouTube Video (]">> \o call.video_id \o <<"[)]">>
                     /\ call.out.channel = <<"[YouTube Channel]">>
                     /\ call.out.thumbnail_url =
                            <<"[https://img.youtube.com/vi/]">> \o call.video_id
                            \o <<"[/0.jpg]">>

\* SearchAPI answered 200 without results and oEmbed answered 200: the
\* oEmbed result was returned.
C9_Witness ==
    /\ call.fn = "get_video_metadata"
    /\ call.done
    /\ ~call.search.raises
    /\ call.search.status = 200
    /\ ~C9_SearchResult(call.search)
    /\ ~call.oembed.raises
    /\ call.oembed.status = 200
    /\ call.out.title = <<"t">>
    /\ call.out.calls = <<"searchapi", "oembed">>

\* C10: GET /history returns at most 20 records, the newest ones, ordered by
\* timestamp descending so that the most recently summarized video is first,
\* and every returned item carries the video_id of its record.
C10_HistoryNewestFirst ==
    (hist.pc = "done") =>
        LET items == hist.resp[1].items
        IN  /\ hist.resp[1].status = 200
            /\ Len(items) <= 20
            /\ Len(items) = Min(Len(store), 20)
            /\ \A k \in 1..(Len(items) - 1) : items[k].timestamp >= items[k + 1].timestamp
            /\ \A k \in 1..Len(items) :
                   /\ Truthy(items[k].video_id)
                   /\ \E i \in 1..Len(store) :
                          /\ store[i].oid = items[k].oid
                          /\ store[i].video_id = items[k].video_id
                          /\ store[i].timestamp = items[k].timestamp
            /\ \A i \in 1..Len(store) :
                   \/ \E k \in 1..Len(items) : items[k].oid = store[i].oid
                   \/ \A k \in 1..Len(items) : items[k].timestamp >= store[i].timestamp

\* The history of a collection of more than 20 records inserted in rising
\* order of timestamp was returned: 20 items, the last one inserted first.
C10_Witness ==
    /\ hist.pc = "done"
    /\ Len(store) > 20
    /\ store[1].timestamp < store[2].timestamp
    /\ Len(hist.resp[1].items) = 20
    /\ hist.resp[1].items[1].oid = store[Len(store)].oid

\* The page of the last scrape attempt made.
C11_LastPage == IF Len(call.out.urls) = 2 THEN call.page2 ELSE call.page1

\* The scrape of page fails or yields no video.
C11_YieldsNothing(page) ==
    \/ page.raises
    \/ page.status # 200
    \/ \A k \in 1..Len(page.links) :
           page.links[k].oembed.raises \/ page.links[k].oembed.status # 200

\* The scrape of page produces no channel name.
C11_NoName(page) ==
    \/ page.raises
    \/ page.status # 200
    \/ (page.og_title # Missing /\ Replace(page.og_title, YouTubeSuffix, <<>>) = <<>>)

\* The ids of the six static sample videos, in their listed order.
C11_SampleIds ==
    <<"[bCkPXBXGsIQ]", "[Nj-hdQMa3uA]", "[gLJowTOkZVo]", "[9tjGg8WnxlQ]", "[vPOl5VqpBuw]",
      "[cxRm6u3mfbI]">>

\* C11: when every scrape attempt made fails or yields no video, POST
\* /channel-videos responds 200 with exactly the six static sample videos in
\* their listed order, and, when the scraping produced no channel name,
\* channel_name is '@<handle>' if a handle was extracted, else
\* 'Channel ID: <id>' if a channel id was extracted, else 'YouTube Channel'.
C11_StaticFallback ==
    (/\ call.fn = "get_channel_videos"
     /\ call.done
     /\ call.channel_url # <<>>
     /\ C11_YieldsNothing(call.page1)
     /\ Len(call.out.urls) = 2 => C11_YieldsNothing(call.page2)) =>
        LET ch == ChannelOf(call.channel_url, call.oembed)
        IN  /\ call.out.status = 200
            /\ Len(call.out.videos) = 6
            /\ \A k \in 1..6 : call.out.videos[k].id = <<C11_SampleIds[k]>>
            /\ call.out.videos = sample_videos
            /\ C11_NoName(C11_LastPage) =>
                   call.out.channel_name =
                       IF Truthy(ch.channel_handle) THEN <<"@">> \o ch.channel_handle
                       ELSE IF Truthy(ch.channel_id)
                       THEN <<"[Channel ID: ]">> \o ch.channel_id
                       ELSE <<"[YouTube Channel]">>

\* For .../@ab/videos the first page gave a channel name and no video and the
\* second request failed: the six samples under the name '@ab'.
C11_Witness ==
    /\ call.fn = "get_channel_videos"
    /\ call.done
    /\ Len(call.out.urls) = 2
    /\ ~C11_NoName(call.page1)
    /\ C11_YieldsNothing(call.page1)
    /\ call.page2.raises
    /\ call.out.channel_name = <<"@", "a", "b">>
    /\ call.out.videos = sample_videos

\* The positions of the links of page that become videos: first occurrences
\* of an id, among the first six distinct ids, whose oEmbed request answers 200.
C12_Kept(page) ==
    IF page.raises \/ page.status # 200 THEN {}
    ELSE {i \in 1..Len(page.links) :
            /\ \A j \in 1..(i - 1) : page.links[j].id # page.links[i].id
            /\ Cardinality({page.links[j].id : j \in 1..(i - 1)}) < 6
            /\ ~page.links[i].oembed.raises
            /\ page.links[i].oembed.status = 200}

\* The n-th position of a set of positions.
C12_Nth(positions, n) ==
    CHOOSE i \in positions : Cardinality({j \in positions : j < i}) = n - 1

\* C12: every request with a non-empty channel_url that does not end in an
\* error returns exactly 6 videos: the scraped videos of the last attempt
\* made, in scrape order, then static sample videos in list order filling
\* the remaining slots.
C12_SixVideos ==
    (/\ call.fn = "get_channel_videos"
     /\ call.done
     /\ call.channel_url # <<>>
     /\ call.out.status = 200) =>
        LET kept == C12_Kept(C11_LastPage)
            n == Cardinality(kept)
        IN  /\ Len(call.out.videos) = 6
            /\ n <= 6
            /\ \A k \in 1..n :
                   call.out.videos[k].id = C11_LastPage.links[C12_Nth(kept, k)].id
            /\ \A k \in (n + 1)..6 : call.out.videos[k] = sample_videos[k - n]

\* A page with a repeated link and a link whose oEmbed request fails: two
\* scraped videos, then the first four samples.
C12_Witness ==
    /\ call.fn = "get_channel_videos"
    /\ call.done
    /\ Len(call.out.urls) = 1
    /\ Len(call.page1.links) = 4
    /\ Cardinality(C12_Kept(call.page1)) = 2
    /\ call.out.videos[2].id = SeedId(3)
    /\ call.out.videos[3] = sample_videos[1]
    /\ call.out.videos[6] = sample_videos[4]

\* C13: in the output of summarize_song_lyrics no line contains a music
\* note and each lyric line (an output line without its leading emoji)
\* appears at most once.
C13_Deduplicated ==
    (call.fn = "summarize_song_lyrics" /\ call.done) =>
        LET lines == Split(call.out, <<"\n">>)
        IN  /\ \A i \in 1..Len(lines) : ~Contains(lines[i], <<MusicNote>>)
            /\ \A i \in 1..Len(lines), j \in 1..Len(lines) :
                   Tail(lines[i]) = Tail(lines[j]) => i = j

\* C14: an error raised while retrieving the transcript reaches the client
\* of POST /summarize with its status: 400 and 'No transcript found for this
\* video' when the transcript API answers 200 without segments, s when it
\* answers a status s other than 200.
C14_StatusKept ==
    \A p \in Procs :
        (req[p].pc = "done" /\ req[p].asked # <<>>) =>
            /\ req[p].asked[1].status # 200 =>
                   req[p].resp[1].status = req[p].asked[1].status
            /\ (/\ req[p].asked[1].status = 200
                /\ ~req[p].asked[1].has_transcripts \/ req[p].asked[1].transcripts = <<>>) =>
                   /\ req[p].resp[1].status = 400
                   /\ req[p].resp[1].detail = <<"[No transcript found for this video]">>

\* The transcript API answered an error status or no transcript segments.
C15_Failed(answer) ==
    answer.status # 200 \/ ~answer.has_transcripts \/ answer.transcripts = <<>>

\* C15: when the transcript retrieval of a POST /summarize fails, the
\* request ends in an error response in that step, nothing is inserted or
\* updated, and neither the metadata sources nor the LLM are called.
C15_FailureLeavesStore ==
    [][\A p \in Procs :
           (/\ req[p].pc = "found"
            /\ req'[p].pc = "done"
            /\ req'[p].asked # <<>>
            /\ C15_Failed(req'[p].asked[1])) =>
               /\ req'[p].resp[1].status >= 400
               /\ store' = store
               /\ next_oid' = next_oid
               /\ req'[p].calls = <<"transcript">>]_vars

\* The transcript API answered 200 without segments to a request made while
\* the collection held a record of another video: an error response.
C15_Witness ==
    \E p \in Procs :
        /\ req[p].pc = "done"
        /\ req[p].asked # <<>>
        /\ req[p].asked[1].status = 200
        /\ req[p].asked[1].transcripts = <<>>
        /\ req[p].resp[1].status >= 400
        /\ store # <<>>

\* C16: a POST /summarize served from the cache (the record found holds a
\* transcript and a summary) calls neither the transcript API nor the LLM,
\* inserts and deletes nothing, and leaves every field of every record other
\* than title, channel and thumbnail_url of the record found as it was.
C16_CachedPathFrame ==
    [][\A p \in Procs :
           (/\ req[p].pc = "found"
            /\ req'[p].pc = "done"
            /\ IsCached(req[p].existing)) =>
               /\ req'[p].resp[1].status = 200
               /\ req'[p].asked = <<>>
               /\ ~InList("transcript", req'[p].calls)
               /\ ~InList("openai", req'[p].calls)
               /\ Len(store') = Len(store)
               /\ now' = now
               /\ \A i \in 1..Len(store) :
                      /\ \A f \in {"oid", "id", "video_id", "url", "transcript", "summary",
                                   "timestamp"} : store'[i][f] = store[i][f]
                      /\ store[i].oid # req[p].existing[1].oid => store'[i] = store[i]]_vars

\* A request was served from a record with an empty title, and the metadata
\* fetched for it was written into the record.
C16_Witness ==
    \E p \in Procs :
        /\ req[p].pc = "done"
        /\ IsCached(req[p].existing)
        /\ req[p].resp[1].is_cached
        /\ req[p].existing[1].title = <<>>
        /\ \E i \in 1..Len(store) :
               /\ store[i].oid = req[p].existing[1].oid
               /\ store[i].title = <<"t">>
               /\ store[i].timestamp = req[p].existing[1].timestamp

\* C17: from an empty collection, every stored record holds a transcript and
\* a summary; so a POST /summarize that finds a record is answered from the
\* cache, without a transcript or LLM call and without writing a summary.
C17_RecordsComplete ==
    /\ \A i \in 1..Len(store) :
           store[i].transcript # Missing /\ store[i].summary # Missing
    /\ \A p \in Procs :
           req[p].existing # <<>> =>
               /\ req[p].existing[1].transcript # Missing
               /\ req[p].existing[1].summary # Missing
               /\ req[p].pc = "done" =>
                      /\ req[p].resp[1].status = 200
                      /\ req[p].resp[1].is_cached
                      /\ req[p].resp[1].summary = req[p].existing[1].summary
                      /\ req[p].asked = <<>>
                      /\ ~InList("openai", req[p].calls)

\* A request found a record of its video and was answered from the cache.
C17_Witness ==
    \E p \in Procs :
        /\ req[p].pc = "done"
        /\ req[p].existing # <<>>
        /\ req[p].resp[1].is_cached
        /\ Len(store) >= 1

\* The summary is the extractive one, with the note to try again later.
C18_TellsToRetry(summary) == InList("[disclaimer]", summary)

\* C18: a POST /summarize that finds the record of an earlier response whose
\* summary is the extractive one with the note to try again later makes a new
\* LLM attempt.
C18_RetryAsksLlm ==
    \A p \in Procs :
        (/\ req[p].pc = "done"
         /\ req[p].resp[1].status = 200
         /\ req[p].existing # <<>>
         /\ \E e \in req[p].prior :
                e.oid = req[p].existing[1].oid /\ C18_TellsToRetry(e.summary)) =>
            InList("openai", req[p].calls)

\* What the program does instead: such a request is served the stored
\* extractive summary, with is_cached true and without an LLM call.
C18_RetryServedFromCache ==
    \A p \in Procs :
        (/\ req[p].pc = "done"
         /\ req[p].existing # <<>>
         /\ \E e \in req[p].prior :
                e.oid = req[p].existing[1].oid /\ C18_TellsToRetry(e.summary)) =>
            /\ req[p].resp[1].is_cached
            /\ req[p].resp[1].summary = req[p].existing[1].summary
            /\ C18_TellsToRetry(req[p].resp[1].summary)
            /\ ~InList("openai", req[p].calls)

\* The step is a backfill of the record oid with the fetched metadata m: when
\* title and channel are both non-empty the record, if still stored, holds m,
\* and otherwise the collection is unchanged; no record changed has an empty
\* title or channel.
C19_Guarded(m, oid) ==
    /\ Len(store') = Len(store)
    /\ IF Truthy(m.title) /\ Truthy(m.channel)
       THEN \A i \in 1..Len(store) :
                IF store[i].oid = oid
                THEN store'[i] = SetFields(store[i],
                         [title |-> m.title, channel |-> m.channel,
                          thumbnail_url |-> m.thumbnail_url])
                ELSE store'[i] = store[i]
       ELSE store' = store
    /\ \A i \in 1..Len(store) :
           store'[i] # store[i] => Truthy(store'[i].title) /\ Truthy(store'[i].channel)

\* C19: a metadata backfill, in the cached path of POST /summarize, in GET
\* /history and in POST /update-metadata, writes to the collection only when
\* the fetched title and channel are both non-empty; it never stores an empty
\* title or channel, and when either is empty the collection is unchanged.
C19_BackfillGuarded ==
    [][/\ \A p \in Procs :
              (/\ req[p].pc = "found"
               /\ req'[p].pc = "done"
               /\ IsCached(req[p].existing)
               /\ LacksMetadata(req[p].existing[1])) =>
                  C19_Guarded(req'[p].resp[1], req[p].existing[1].oid)
       /\ \A search \in SearchAnswers, oembed \in OEmbedAnswers :
              /\ (hist.pc = "loop" /\ History_Item(search, oembed)) =>
                     C19_Guarded(
                         get_video_metadata(hist.items[hist.i].video_id, search, oembed),
                         hist.items[hist.i].oid)
              /\ (upd.pc = "loop" /\ upd.items[upd.i].video_id # Missing
                  /\ Update_Item(search, oembed)) =>
                     C19_Guarded(
                         get_video_metadata(upd.items[upd.i].video_id, search, oembed),
                         upd.items[upd.i].oid)]_vars

\* POST /update-metadata fetched an empty title for the one record it found
\* and left it alone; a later backfill fetched a title and a channel and
\* wrote them into the record, which still has no summary.
C19_Witness ==
    /\ upd.pc = "done"
    /\ Len(upd.items) = 1
    /\ upd.items[1].video_id # Missing
    /\ upd.updated_count = 0
    /\ Len(store) = 1
    /\ store[1].oid = upd.items[1].oid
    /\ store[1].summary = Missing
    /\ store[1].title = <<"t">>
    /\ store[1].channel = <<"c">>

\* The step is one of GET /history or of POST /update-metadata.
C20_Step == hist' # hist \/ upd' # upd

\* Such a step inserts and deletes nothing and keeps video_id, url,
\* transcript, summary and timestamp of every record.
C20_Frame ==
    C20_Step =>
        /\ Len(store') = Len(store)
        /\ \A i \in 1..Len(store) :
               \A f \in {"oid", "id", "video_id", "url", "transcript", "summary",
                         "timestamp"} : store'[i][f] = store[i][f]

\* Such a step changes only records that lack a title, channel or
\* thumbnail_url.
C20_OnlyMissing ==
    C20_Step =>
        \A i \in 1..Min(Len(store), Len(store')) :
            store'[i] # store[i] => LacksMetadata(store[i])

\* updated_videos <= total_processed <= 100, and updated_videos counts the
\* records written: it grows exactly in the iterations that write to a
\* stored record.
C20_Counts ==
    /\ upd'.updated_count <= Len(upd'.items)
    /\ Len(upd'.items) <= 100
    /\ upd'.resp # <<>> =>
           /\ upd'.resp[1].updated_videos = upd'.updated_count
           /\ upd'.resp[1].total_processed = Len(upd'.items)
    /\ (upd.pc = "loop" /\ upd' # upd) =>
           /\ upd'.updated_count # upd.updated_count =>
                  upd.items[upd.i].oid \in Oids(store)
           /\ store' # store => upd'.updated_count = upd.updated_count + 1

C20_FrameHolds == [][C20_Frame]_vars

C20_OnlyMissingHolds == [][C20_OnlyMissing]_vars

C20_CountsHold == [][C20_Counts]_vars

\* C20: GET /history and POST /update-metadata insert and delete nothing and
\* keep video_id, url, transcript, summary and timestamp of every record;
\* they change only records that lack a title, channel or thumbnail_url; and
\* POST /update-metadata reports updated_videos <= total_processed <= 100,
\* updated_videos being the number of records it wrote.
C20_HistoryUpdateFrame ==
    [][C20_Frame /\ C20_OnlyMissing /\ C20_Counts]_vars

\* s is IdLen characters of the class [0-9A-Za-z_-].
C21_IsId(s) == Len(s) = IdLen /\ \A k \in 1..Len(s) : s[k] \in IdChars

\* C21: a URL of the form https://www.youtube.com/watch?v=ID,
\* https://youtu.be/ID or https://www.youtube.com/embed/ID, ID being 11
\* characters of the class, extracts to ID, the same for the three forms;
\* extract_video_id raises exactly when no "v=" or "/" of the URL is followed
\* by 11 characters of the class; and what it returns is 11 characters of
\* the class.
C21_ExtractsId ==
    (call.fn = "extract_video_id" /\ call.done) =>
        /\ (call.form \in VideoForms /\ C21_IsId(call.tail)) =>
               /\ call.out = call.tail
               /\ \A form \in VideoForms : extract_video_id(form \o call.tail) = call.out
        /\ call.out = None <=> ~C7_HasVideoId(call.url)
        /\ call.out # None => C21_IsId(call.out)

\* The id of a URL of the form https://youtu.be/ID was extracted.
C21_Witness ==
    /\ call.fn = "extract_video_id"
    /\ call.done
    /\ call.form = ShortForm
    /\ C21_IsId(call.tail)
    /\ call.out = call.tail
====
